---- MODULE Spec2Model ----
(***************************************************************************)
(* A model of p2p/lightchain.py: the LightPeerChain service.               *)
(*                                                                         *)
(* The service runs two coroutines on one event loop: _run, which takes    *)
(* the messages of the peers from msg_queue, and _process_announcements,   *)
(* the worker that takes (peer, head_info) pairs from the announcement     *)
(* queue and syncs headers.  Lookup callers run get_block_header_by_hash   *)
(* concurrently.  Every action below is one run of a coroutine between     *)
(* two suspension points.                                                  *)
(***************************************************************************)
EXTENDS Integers, Sequences, FiniteSets, TLC

(***************************************************************************)
(* Bounds of the model.                                                    *)
(***************************************************************************)
\* greatest block number of a header a peer can send
MaxHeight == 2
\* greatest request id gen_request_id hands out in the whole service
MaxRequestId == 2
\* greatest request id gen_request_id hands out where only the sync runs
MaxSyncRequestId == 4
\* number of announcements enqueued in one run (connects and Announce msgs)
MaxAnnouncements == 2
\* peer.max_headers_fetch, scaled down
max_headers_fetch == 2
\* greatest request id gen_request_id hands out where only the lookups run
MaxLookupRequestId == 2
\* maxsize of the alru_cache decorators, scaled down
maxsize == 1
\* greatest block number of the chain the header database holds at the start
InitHeight == 1

Peers == {"p1", "p2"}
Callers == {"c1"}
\* the lookup methods: get_block_header_by_hash, get_block_body_by_hash,
\* get_receipts, get_account and get_contract_code
Ops == {"header", "body", "receipts", "account", "code"}
NoPeer == "nobody"
NoId == -1
NoHash == -1
NoNumber == -1

(***************************************************************************)
(* Constants of the program.                                               *)
(***************************************************************************)
GENESIS_BLOCK_NUMBER == 0

(***************************************************************************)
(* Block headers.  A header is known by its hash.  At every height n >= 1  *)
(* there are two headers whose parent is the good header at n - 1: the     *)
(* good one (hash 2n) and one the VM rules reject (hash 2n - 1).  Hash 0   *)
(* is the genesis header.                                                  *)
(***************************************************************************)
Hashes == 0 .. 2 * MaxHeight

BlockHeader(h) ==
    [hash         |-> h,
     block_number |-> (h + 1) \div 2,
     parent_hash  |-> IF h = 0 THEN NoHash ELSE 2 * (((h + 1) \div 2) - 1)]

is_genesis(header) == header.block_number = GENESIS_BLOCK_NUMBER

\* VM.validate_header(header, parent_header): TRUE iff no ValidationError
validate_header(header, parent_header) ==
    /\ header.block_number = parent_header.block_number + 1
    /\ header.parent_hash = parent_header.hash
    /\ header.hash % 2 = 0

\* A reply carries a list of headers.  The state keeps the number of its
\* headers that were not read yet; what the next header is gets drawn when the
\* code reads it, since a peer is free to put any header at any place.
BatchSizes == 0 .. max_headers_fetch

(***************************************************************************)
(* les.HeadInfo: what a peer announces.                                    *)
(***************************************************************************)
HeadInfo(h, depth) ==
    [block_hash       |-> h,
     block_number     |-> BlockHeader(h).block_number,
     total_difficulty |-> BlockHeader(h).block_number,
     reorg_depth      |-> depth]

\* the heads the peers announce: the good headers, with a reorg depth of 0 or 1
HeadInfos ==
    {HeadInfo(2 * n, 0) : n \in 0 .. MaxHeight} \cup {HeadInfo(2 * n, 1) : n \in 1 .. MaxHeight}

NoHeadInfo ==
    [block_hash |-> NoHash, block_number |-> 0, total_difficulty |-> 0, reorg_depth |-> 0]

(***************************************************************************)
(* Dictionaries.                                                           *)
(***************************************************************************)
DictPop(d, k) == [x \in DOMAIN d \ {k} |-> d[x]]
DictSet(d, k, v) == [x \in DOMAIN d \cup {k} |-> IF x = k THEN v ELSE d[x]]

Max(a, b) == IF a >= b THEN a ELSE b
Min(a, b) == IF a <= b THEN a ELSE b

VARIABLES
    headerdb,                      \* hashes of the persisted headers
    canonical_head,                \* hash of the canonical head of headerdb
    announcement_queue,            \* self._announcement_queue
    last_processed_announcements,  \* self._last_processed_announcements
    pending_replies,               \* self._pending_replies: id -> owner of the callback
    next_request_id,               \* the next value of gen_request_id
    worker,                        \* the _process_announcements coroutine
    lookups,                       \* the callers of the lookup methods
    lookup_cache,                  \* the caches of the alru_cache decorators
    peer_state,                    \* "new", "connected" or "cancelled"
    peer_head_info,                \* peer.head_info
    disconnect_reason,             \* the reason of the last peer.disconnect
    token_triggered,               \* the cancel token of the service
    hist                           \* history of the run, read by the properties only

vars == <<headerdb, canonical_head, announcement_queue, last_processed_announcements,
          pending_replies, next_request_id, worker, lookups, lookup_cache, peer_state,
          peer_head_info, disconnect_reason, token_triggered, hist>>

db_vars == <<headerdb, canonical_head>>
peer_vars == <<peer_state, peer_head_info, disconnect_reason>>
request_vars == <<pending_replies, next_request_id>>

(***************************************************************************)
(* The header database (headerdb).                                         *)
(***************************************************************************)
coro_header_exists(block_hash) == block_hash \in headerdb

coro_get_canonical_head == BlockHeader(canonical_head)

\* coro_persist_header(header): the header is stored; it becomes the
\* canonical head when it is higher than the present one
coro_persist_header(header) ==
    /\ headerdb' = headerdb \cup {header.hash}
    /\ canonical_head' =
           IF header.block_number > BlockHeader(canonical_head).block_number
           THEN header.hash
           ELSE canonical_head

(***************************************************************************)
(* Request ids and peer selection.                                         *)
(***************************************************************************)
\* p2p.utils.gen_request_id: ids are issued monotonically
gen_request_id == next_request_id

RequestIds == 0 .. Max(MaxRequestId, Max(MaxSyncRequestId, MaxLookupRequestId))

\* peer_pool.highest_td_peer: a connected peer with the greatest head_td
highest_td_peers ==
    {p \in Peers :
        /\ peer_state[p] = "connected"
        /\ \A q \in Peers :
               peer_state[q] = "connected" =>
                   peer_head_info[q].total_difficulty <= peer_head_info[p].total_difficulty}

(***************************************************************************)
(* The state after __init__.                                               *)
(***************************************************************************)
IdleWorker ==
    [pc                |-> "idle",
     peer              |-> NoPeer,
     head_info         |-> NoHeadInfo,
     serial            |-> 0,
     phase             |-> "none",
     fetch_start       |-> NoNumber,
     start_block       |-> NoNumber,
     chain_head_number |-> NoNumber,
     i                 |-> 0,
     request_id        |-> NoId,
     reply_peer        |-> NoPeer,
     reply             |-> 0,
     headers           |-> 0,
     new_tip           |-> NoNumber,
     error             |-> "none"]

\* a caller of a lookup method; result, value and requests are those of its
\* last call: what it raised ("value" when it returned), what it returned,
\* and the number of requests it sent
IdleLookup ==
    [pc         |-> "idle",
     op         |-> "none",
     block_hash |-> NoHash,
     peer       |-> NoPeer,
     request_id |-> NoId,
     reply_peer |-> NoPeer,
     reply      |-> 0,
     proof      |-> "none",
     result     |-> "none",
     value      |-> NoHash,
     requests   |-> 0]

InitHist ==
    [validated     |-> {0},   \* headers accepted by validate_header against a stored parent
     next_serial   |-> 1,     \* serial number of the next announcement enqueued
     last_started  |-> [p \in Peers |-> 0],  \* the last announcement of the peer taken
     active        |-> 0,     \* process_announcement calls in progress
     requests_sent |-> 0,     \* requests sent by the fetch_headers call in progress
     batch         |-> <<>>]  \* the headers of the batch in import that were persisted

\* the header database is handed to __init__: it holds the genesis header
\* and the good headers up to its canonical head
Init ==
    /\ \E n \in 0 .. InitHeight :
           /\ headerdb = {2 * k : k \in 0 .. n}
           /\ canonical_head = 2 * n
    /\ announcement_queue = <<>>
    /\ last_processed_announcements = [p \in {} |-> NoHeadInfo]
    /\ pending_replies = [id \in {} |-> NoPeer]
    /\ next_request_id = 0
    /\ worker = IdleWorker
    /\ lookups = [c \in Callers |-> IdleLookup]
    /\ lookup_cache = [op \in Ops |-> <<>>]
    /\ peer_state = [p \in Peers |-> "new"]
    /\ peer_head_info = [p \in Peers |-> NoHeadInfo]
    /\ disconnect_reason = [p \in Peers |-> "none"]
    /\ token_triggered = FALSE
    /\ hist = [InitHist EXCEPT !.validated = headerdb]

(***************************************************************************)
(* register_peer and _run: the peer events.                                *)
(***************************************************************************)
\* The coroutines share one event loop: while the worker runs between two of
\* its awaits, nothing else runs.  The worker is between awaits where it
\* tests the fetch loop, where a batch has ended, and where an exception is
\* on its way to the except clauses.
WorkerRuns ==
    \/ worker.pc \in {"loop", "error"}
    \/ worker.pc \in {"persist", "import"} /\ worker.headers = 0

put_nowait(queue, peer, head_info) ==
    Append(queue, [peer |-> peer, head_info |-> head_info, serial |-> hist.next_serial])

\* a peer joins the pool; its head_info is the one of the handshake
register_peer(peer, head_info) ==
    /\ ~WorkerRuns
    /\ ~token_triggered
    /\ peer_state[peer] = "new"
    /\ hist.next_serial <= MaxAnnouncements
    /\ peer_state' = [peer_state EXCEPT ![peer] = "connected"]
    /\ peer_head_info' = [peer_head_info EXCEPT ![peer] = head_info]
    /\ announcement_queue' = put_nowait(announcement_queue, peer, head_info)
    /\ hist' = [hist EXCEPT !.next_serial = @ + 1]
    /\ UNCHANGED <<db_vars, last_processed_announcements, request_vars, worker,
                   lookups, lookup_cache, disconnect_reason, token_triggered>>

\* _run takes an Announce message of the peer from msg_queue
Announce(peer, head_info) ==
    /\ ~WorkerRuns
    /\ ~token_triggered
    /\ peer_state[peer] # "new"
    /\ hist.next_serial <= MaxAnnouncements
    /\ peer_head_info' = [peer_head_info EXCEPT ![peer] = head_info]
    /\ announcement_queue' = put_nowait(announcement_queue, peer, head_info)
    /\ hist' = [hist EXCEPT !.next_serial = @ + 1]
    /\ UNCHANGED <<db_vars, last_processed_announcements, request_vars, worker,
                   lookups, lookup_cache, peer_state, disconnect_reason, token_triggered>>

\* the test of line 137
ReplyIsAwaited(request_id) == request_id \in DOMAIN pending_replies

\* [a slip: the callback is looked up and left in the dictionary]
PopCallback_kept(replies, request_id) == replies

\* self._pending_replies.pop(request_id)
PopCallback(replies, request_id) == DictPop(replies, request_id)

\* the closure of _wait_for_reply is alive until its coroutine has resumed
WorkerListens(request_id) ==
    /\ worker.pc \in {"wait", "got_reply"}
    /\ worker.request_id = request_id

LookupListens(c, request_id) ==
    /\ lookups[c].pc \in {"wait", "got_reply"}
    /\ lookups[c].request_id = request_id

\* callback(msg): reply = r; got_reply.set()
callback(owner, request_id, peer, headers) ==
    IF owner = "worker" /\ WorkerListens(request_id)
    THEN /\ worker' = [worker EXCEPT !.pc = "got_reply", !.reply = headers,
                                      !.reply_peer = peer]
         /\ UNCHANGED lookups
    ELSE IF owner \in Callers /\ LookupListens(owner, request_id)
    THEN /\ lookups' = [lookups EXCEPT ![owner].pc = "got_reply",
                                        ![owner].reply = headers,
                                        ![owner].reply_peer = peer]
         /\ UNCHANGED worker
    ELSE UNCHANGED <<worker, lookups>>

\* _run takes a message with a request_id of the peer from msg_queue
HandleReply(peer, request_id, headers) ==
    /\ ~WorkerRuns
    /\ ~token_triggered
    /\ peer_state[peer] # "new"
    /\ IF ReplyIsAwaited(request_id)
       THEN /\ pending_replies' = PopCallback(pending_replies, request_id)
            /\ callback(pending_replies[request_id], request_id, peer, headers)
       ELSE UNCHANGED <<pending_replies, worker, lookups>>
    /\ UNCHANGED <<db_vars, announcement_queue, last_processed_announcements,
                   next_request_id, peer_vars, token_triggered, hist, lookup_cache>>

(***************************************************************************)
(* _process_announcements: the worker.                                     *)
(***************************************************************************)
\* [a slip: the newest announcement is taken, not the oldest]
QueueGet_newest(queue) == queue[Len(queue)]

\* self._announcement_queue.get()
QueueGet(queue) == Head(queue)

QueueRest(queue) == Tail(queue)

\* [a slip: process_announcement is started as a task and not awaited]
WorkerAwaitsAnnouncement_always == TRUE

\* the worker takes an announcement only where it awaits wait_for_announcement,
\* since it awaits process_announcement before the next round of its loop
WorkerAwaitsAnnouncement == worker.pc = "idle"

\* the history of an announcement whose processing has ended
Ended(h) ==
    [h EXCEPT !.active = @ - 1, !.requests_sent = 0, !.batch = <<>>]

wait_for_announcement ==
    /\ WorkerAwaitsAnnouncement
    /\ ~token_triggered
    /\ announcement_queue # <<>>
    /\ LET item == QueueGet(announcement_queue)
       IN  /\ worker' = [IdleWorker EXCEPT !.pc = "process",
                                           !.peer = item.peer,
                                           !.head_info = item.head_info,
                                           !.serial = item.serial]
           /\ hist' = [hist EXCEPT !.last_started[item.peer] = item.serial,
                                   !.active = @ + 1]
    /\ announcement_queue' = QueueRest(announcement_queue)
    /\ UNCHANGED <<db_vars, last_processed_announcements, request_vars, lookups, lookup_cache,
                   peer_vars, token_triggered>>

\* process_announcement has returned: line 155
Succeed ==
    /\ last_processed_announcements' =
           DictSet(last_processed_announcements, worker.peer, worker.head_info)
    /\ worker' = IdleWorker
    /\ hist' = Ended(hist)

\* an exception leaves process_announcement
Raise(error) ==
    worker' = [worker EXCEPT !.pc = "error", !.error = error]

\* [a slip: the id of the first attempt is used again by the retries]
FetchRequestId_reused(w) == IF w.i > 0 THEN w.request_id ELSE gen_request_id

\* request_id = gen_request_id() of _fetch_headers_starting_at
FetchRequestId(w) == gen_request_id

\* _fetch_headers_starting_at up to the suspension in _wait_for_reply:
\* the request is sent and the callback is registered.  last_id is the
\* greatest id the model lets gen_request_id hand out.
SendGetBlockHeaders(w, last_id) ==
    /\ next_request_id <= last_id
    /\ LET request_id == FetchRequestId(w)
       IN  /\ pending_replies' = DictSet(pending_replies, request_id, "worker")
           /\ worker' = [w EXCEPT !.pc = "wait", !.request_id = request_id,
                                  !.reply = 0, !.reply_peer = NoPeer]
    /\ next_request_id' = next_request_id + 1
    /\ hist' = [hist EXCEPT !.requests_sent = IF w.i = 0 THEN 1 ELSE @ + 1]

\* fetch_headers(start_block, peer) up to its first suspension
fetch_headers(w, start_block, phase, last_id) ==
    IF start_block = GENESIS_BLOCK_NUMBER
    THEN /\ Raise("ValidationError")
         /\ UNCHANGED <<request_vars, hist>>
    ELSE SendGetBlockHeaders([w EXCEPT !.phase = phase,
                                       !.fetch_start = start_block,
                                       !.i = 0,
                                       !.new_tip = NoNumber],
                             last_id)

\* [a slip: the head is never found in the database]
HeadIsKnown_never(head_info) == FALSE

\* the test of line 217
HeadIsKnown(head_info) == coro_header_exists(head_info.block_hash)

\* [a slip: the oldest ancestor is not kept above the genesis block]
oldest_ancestor_to_consider_unbounded(chain_head_number) ==
    chain_head_number - max_headers_fetch + 1

\* lines 196-199
oldest_ancestor_to_consider(chain_head_number) ==
    Max(GENESIS_BLOCK_NUMBER + 1, chain_head_number - max_headers_fetch + 1)

\* [a slip: the reorg depth is added]
sync_start_block_added(chain_head_number, peer_known, last_number, reorg_depth) ==
    Max(IF chain_head_number = GENESIS_BLOCK_NUMBER
        THEN GENESIS_BLOCK_NUMBER + 1
        ELSE IF ~peer_known
        THEN chain_head_number
        ELSE last_number + reorg_depth,
        GENESIS_BLOCK_NUMBER + 1)

\* what get_sync_start_block returns (lines 187-189 and 207-212):
\* peer_known says that the peer has an entry in _last_processed_announcements,
\* last_number is the block number of the entry
sync_start_block(chain_head_number, peer_known, last_number, reorg_depth) ==
    Max(IF chain_head_number = GENESIS_BLOCK_NUMBER
        THEN GENESIS_BLOCK_NUMBER + 1
        ELSE IF ~peer_known
        THEN chain_head_number
        ELSE last_number - reorg_depth,
        GENESIS_BLOCK_NUMBER + 1)

\* process_announcement from its start to the fetch loop (lines 217-223),
\* with get_sync_start_block up to its fetch
ProcessAnnouncement(last_id) ==
    /\ worker.pc = "process"
    /\ ~token_triggered
    /\ IF HeadIsKnown(worker.head_info)
       THEN /\ Succeed
            /\ UNCHANGED request_vars
       ELSE LET chain_head == coro_get_canonical_head
                peer_known == worker.peer \in DOMAIN last_processed_announcements
                w == [worker EXCEPT !.chain_head_number = chain_head.block_number]
            IN  IF chain_head.block_number # GENESIS_BLOCK_NUMBER /\ ~peer_known
                THEN /\ fetch_headers(w,
                                      oldest_ancestor_to_consider(chain_head.block_number),
                                      "align", last_id)
                     /\ UNCHANGED last_processed_announcements
                ELSE /\ worker' =
                            [w EXCEPT !.pc = "loop",
                                      !.start_block =
                                          sync_start_block(
                                              chain_head.block_number,
                                              peer_known,
                                              IF peer_known
                                              THEN last_processed_announcements[worker.peer].block_number
                                              ELSE NoNumber,
                                              worker.head_info.reorg_depth)]
                     /\ UNCHANGED <<last_processed_announcements, request_vars, hist>>
    /\ UNCHANGED <<db_vars, announcement_queue, lookups, lookup_cache, peer_vars, token_triggered>>

\* the test of the fetch loop (line 224) and the call of line 227
FetchLoop(last_id) ==
    /\ worker.pc = "loop"
    /\ IF worker.start_block < worker.head_info.block_number
       THEN /\ fetch_headers(worker, worker.start_block, "sync", last_id)
            /\ UNCHANGED last_processed_announcements
       ELSE /\ Succeed
            /\ UNCHANGED request_vars
    /\ UNCHANGED <<db_vars, announcement_queue, lookups, lookup_cache, peer_vars, token_triggered>>

\* the wait of line 279 ends with TimeoutError, which fetch_headers catches
ReplyTimeout ==
    /\ worker.pc = "wait"
    /\ ~token_triggered
    /\ worker' = [worker EXCEPT !.pc = "sleep"]
    /\ UNCHANGED <<db_vars, announcement_queue, last_processed_announcements,
                   request_vars, lookups, lookup_cache, peer_vars, token_triggered, hist>>

\* [a slip: one attempt too few]
max_consecutive_timeouts_short == 5 - 1

max_consecutive_timeouts == 5

\* after asyncio.sleep(0.5): the next round of the loop of fetch_headers
Retry(last_id) ==
    /\ worker.pc = "sleep"
    /\ IF worker.i + 1 < max_consecutive_timeouts
       THEN SendGetBlockHeaders([worker EXCEPT !.i = @ + 1], last_id)
       ELSE /\ Raise("TooManyTimeouts")
            /\ UNCHANGED <<request_vars, hist>>
    /\ UNCHANGED <<db_vars, announcement_queue, last_processed_announcements,
                   lookups, lookup_cache, peer_vars, token_triggered>>

\* _wait_for_reply returns the reply to _fetch_headers_starting_at
ReplyReceived ==
    /\ worker.pc = "got_reply"
    /\ ~token_triggered
    /\ IF worker.reply = 0
       THEN Raise(IF worker.phase = "align"
                  THEN "LESAnnouncementProcessingError"
                  ELSE "EmptyGetBlockHeadersReply")
       ELSE worker' = [worker EXCEPT !.pc = IF worker.phase = "align"
                                             THEN "persist" ELSE "import",
                                     !.headers = worker.reply,
                                     !.reply_peer = NoPeer,
                                     !.request_id = NoId,
                                     !.i = 0,
                                     !.new_tip = NoNumber]
    /\ UNCHANGED <<db_vars, announcement_queue, last_processed_announcements,
                   request_vars, lookups, lookup_cache, peer_vars, token_triggered, hist>>

\* get_sync_start_block, lines 205-207 and 212: one header of the loop, or its end
PersistAligned(hash) ==
    /\ worker.pc = "persist"
    /\ IF worker.headers = 0
       THEN /\ worker' = [worker EXCEPT !.pc = "loop",
                                        !.phase = "none",
                                        !.fetch_start = NoNumber,
                                        !.reply = 0,
                                        !.start_block =
                                            sync_start_block(worker.chain_head_number,
                                                             FALSE, NoNumber,
                                                             worker.head_info.reorg_depth)]
            /\ UNCHANGED <<db_vars, hist>>
       ELSE /\ ~token_triggered
            /\ coro_persist_header(BlockHeader(hash))
            /\ UNCHANGED hist
            /\ worker' = [worker EXCEPT !.headers = @ - 1]
    /\ UNCHANGED <<announcement_queue, last_processed_announcements, request_vars,
                   lookups, lookup_cache, peer_vars, token_triggered>>

\* _validate_header(header): the exception it raises, "none" when it returns
ValidateHeaderError(header) ==
    IF is_genesis(header)
    THEN "ValidationError"
    ELSE IF ~coro_header_exists(header.parent_hash)
    THEN "HeaderNotFound"
    ELSE IF ~validate_header(header, BlockHeader(header.parent_hash))
    THEN "ValidationError"
    ELSE "none"

\* [a slip: the tip is the first header of the batch]
NewTip_first(new_tip, header) ==
    IF new_tip = NoNumber THEN header.block_number ELSE new_tip

\* new_tip = header.block_number (line 250)
NewTip(new_tip, header) == header.block_number

\* [a slip: the header is persisted before it is validated]
PersistsInvalid_always(exc) == TRUE

\* whether the loop of _import_headers_from_peer persists a header for which
\* _validate_header has raised exc: it does not, the else clause of line 248
\* is not run
PersistsInvalid(exc) == FALSE

\* _import_headers_from_peer: one header of the loop, or its end (line 251)
ImportHeader(hash) ==
    /\ worker.pc = "import"
    /\ IF worker.headers = 0
       THEN /\ worker' = [worker EXCEPT !.pc = "loop",
                                        !.phase = "none",
                                        !.fetch_start = NoNumber,
                                        !.reply = 0,
                                        !.start_block = worker.new_tip]
            /\ hist' = [hist EXCEPT !.batch = <<>>]
            /\ UNCHANGED db_vars
       ELSE /\ ~token_triggered
            /\ LET header == BlockHeader(hash)
                   exc == ValidateHeaderError(header)
               IN  IF exc # "none"
                   THEN /\ Raise(IF exc = "ValidationError"
                                 THEN "LESAnnouncementProcessingError"
                                 ELSE exc)
                        /\ IF PersistsInvalid(exc)
                           THEN coro_persist_header(header)
                           ELSE UNCHANGED db_vars
                        /\ UNCHANGED hist
                   ELSE /\ coro_persist_header(header)
                        /\ worker' = [worker EXCEPT !.headers = @ - 1,
                                                    !.new_tip = NewTip(@, header)]
                        /\ hist' = [hist EXCEPT !.validated = @ \cup {header.hash},
                                                !.batch = Append(@, header.hash)]
    /\ UNCHANGED <<announcement_queue, last_processed_announcements, request_vars,
                   lookups, lookup_cache, peer_vars, token_triggered>>

\* [a slip: the reasons of the two disconnects are swapped]
DisconnectReasonOf_swapped(error) ==
    IF error = "LESAnnouncementProcessingError" THEN "timeout"
    ELSE IF error = "TooManyTimeouts" THEN "subprotocol_error"
    ELSE "none"

\* the except clauses of _process_announcements: the reason of the
\* disconnect, "none" where the peer is dropped without one
DisconnectReasonOf(error) ==
    IF error = "LESAnnouncementProcessingError" THEN "subprotocol_error"
    ELSE IF error = "TooManyTimeouts" THEN "timeout"
    ELSE "none"

\* drop_peer(peer)
drop_peer(peer) ==
    /\ last_processed_announcements' = DictPop(last_processed_announcements, peer)
    /\ peer_state' = [peer_state EXCEPT ![peer] = "cancelled"]

\* lines 159-167: disconnect_peer or drop_peer, then the next round of the loop
HandleError ==
    /\ worker.pc = "error"
    /\ LET reason == DisconnectReasonOf(worker.error)
       IN  disconnect_reason' =
               IF reason # "none"
               THEN [disconnect_reason EXCEPT ![worker.peer] = reason]
               ELSE disconnect_reason
    /\ hist' = Ended(hist)
    /\ drop_peer(worker.peer)
    /\ worker' = IdleWorker
    /\ UNCHANGED <<db_vars, announcement_queue, request_vars, lookups, lookup_cache,
                   peer_head_info, token_triggered>>

\* self.wait raises OperationCancelled: the worker leaves its loop
WorkerCancelled ==
    /\ token_triggered
    /\ \/ worker.pc \in {"idle", "process", "wait", "got_reply"}
       \/ worker.pc \in {"persist", "import"} /\ worker.headers # 0
    /\ worker' = [IdleWorker EXCEPT !.pc = "exited"]
    /\ hist' = IF worker.pc = "idle" THEN hist ELSE Ended(hist)
    /\ UNCHANGED <<db_vars, announcement_queue, last_processed_announcements,
                   request_vars, lookups, lookup_cache, peer_vars, token_triggered>>

\* the cancel token of the service is triggered
Stop ==
    /\ ~WorkerRuns
    /\ ~token_triggered
    /\ token_triggered' = TRUE
    /\ UNCHANGED <<db_vars, announcement_queue, last_processed_announcements,
                   request_vars, worker, lookups, lookup_cache, peer_vars, hist>>

(***************************************************************************)
(* The lookup methods and their caches.                                    *)
(***************************************************************************)
\* the hashes the callers ask for where the whole service runs
LookupKeys == {2}

\* the keys the callers ask for where only the lookups run
AllLookupKeys == {2, 4}

\* the heads of the peers where only the lookups run
LookupHeadInfos == {HeadInfo(2 * n, 0) : n \in 0 .. 1}

\* what a body, a list of receipts or a code of a reply can be
LookupValues == {1, 2}

\* alru_cache keeps its entries in the order of their last use, the least
\* recently used one first
CacheKeys(op) == {lookup_cache[op][i].key : i \in 1 .. Len(lookup_cache[op])}

CacheIndex(op, key) ==
    CHOOSE i \in 1 .. Len(lookup_cache[op]) : lookup_cache[op][i].key = key

Remove(seq, i) == SubSeq(seq, 1, i - 1) \o SubSeq(seq, i + 1, Len(seq))

\* a hit: the entry becomes the most recently used one
CacheHit(op, key) ==
    [lookup_cache EXCEPT ![op] = Append(Remove(@, CacheIndex(op, key)),
                                        @[CacheIndex(op, key)])]

\* the result of a call is stored; the least recently used entry is dropped
\* when the cache is full
CachePut(op, key, value) ==
    LET added == Append(lookup_cache[op], [key |-> key, value |-> value])
    IN  [lookup_cache EXCEPT ![op] = IF Len(added) > maxsize THEN Tail(added) ELSE added]

\* [a slip: get_receipts has no alru_cache decorator]
IsCached_not_receipts(op, key) == op # "receipts" /\ key \in CacheKeys(op)

\* the decorators of lines 285, 290, 303, 317 and 326: the call is answered
\* from the cache
IsCached(op, key) == key \in CacheKeys(op)

\* [a slip: exceptions are cached as well]
cache_exceptions_set == TRUE

\* cache_exceptions=False of the decorators
cache_exceptions == FALSE

\* the caller has the result of its call
Finished(l, result, value) ==
    [IdleLookup EXCEPT !.op = l.op,
                       !.block_hash = l.block_hash,
                       !.result = result,
                       !.value = value,
                       !.requests = l.requests]

\* gen_request_id, the send of the request and _wait_for_reply up to its
\* suspension (lines 278-279)
SendLookupRequest(c, l, peer) ==
    LET request_id == gen_request_id
    IN  /\ pending_replies' = DictSet(pending_replies, request_id, c)
        /\ lookups' = [lookups EXCEPT ![c] = [l EXCEPT !.pc = "wait",
                                                       !.peer = peer,
                                                       !.request_id = request_id,
                                                       !.reply_peer = NoPeer,
                                                       !.reply = 0,
                                                       !.requests = @ + 1]]
        /\ next_request_id' = next_request_id + 1

\* a call of a lookup method: answered from the cache, or run up to the
\* suspension in _wait_for_reply of its first request
Lookup(c, op, key, last_id) ==
    /\ ~WorkerRuns
    /\ lookups[c].pc = "idle"
    /\ IF IsCached(op, key)
       THEN /\ lookups' = [lookups EXCEPT ![c] =
                              [IdleLookup EXCEPT
                                  !.op = op,
                                  !.block_hash = key,
                                  !.result = "value",
                                  !.value = lookup_cache[op][CacheIndex(op, key)].value]]
            /\ lookup_cache' = CacheHit(op, key)
            /\ UNCHANGED request_vars
       ELSE /\ next_request_id <= last_id
            /\ \E peer \in highest_td_peers :
                   SendLookupRequest(c,
                                     [IdleLookup EXCEPT !.op = op, !.block_hash = key],
                                     peer)
            /\ UNCHANGED lookup_cache
    /\ UNCHANGED <<db_vars, announcement_queue, last_processed_announcements,
                   worker, peer_vars, token_triggered, hist>>

\* lines 285-288
GetBlockHeaderByHash(c, block_hash, last_id) == Lookup(c, "header", block_hash, last_id)

\* lines 290-296
GetBlockBodyByHash(c, block_hash, last_id) == Lookup(c, "body", block_hash, last_id)

\* lines 303-309
GetReceipts(c, block_hash, last_id) == Lookup(c, "receipts", block_hash, last_id)

\* lines 317-321: the key stands for the pair (block_hash, address)
GetAccount(c, key, last_id) == Lookup(c, "account", key, last_id)

\* lines 326-331: the key stands for the pair (block_hash, key)
GetContractCode(c, key, last_id) == Lookup(c, "code", key, last_id)

\* [a slip: the hash of the header is not compared]
LookupResult_unchecked(block_hash, reply, hash) ==
    IF reply = 0 THEN "HeaderNotFound" ELSE "header"

\* lines 342-349: what _get_block_header_by_hash returns or raises
LookupResult(block_hash, reply, hash) ==
    IF reply = 0 THEN "HeaderNotFound"
    ELSE IF BlockHeader(hash).hash # block_hash THEN "BadLESResponse"
    ELSE "header"

\* the first item of the list of a reply: a header hash, a body, receipts or
\* a code; for a proof 1 says that it proves the account and 0 that it does not
ReplyContents(l) ==
    IF l.reply = 0 THEN {0}
    ELSE IF l.op = "header" \/ (l.op = "account" /\ l.proof # "none") THEN Hashes
    ELSE IF l.op = "account" THEN {0, 1}
    ELSE LookupValues

\* what the call raises once its last reply is there, "value" when it returns
LookupOutcome(l, content) ==
    CASE l.op = "header" ->
             IF LookupResult(l.block_hash, l.reply, content) = "header"
             THEN "value"
             ELSE LookupResult(l.block_hash, l.reply, content)
      [] l.op \in {"body", "receipts"} ->
             IF l.reply = 0 THEN "BlockNotFound" ELSE "value"
      [] l.op = "code" -> "value"
      [] l.op = "account" ->
             IF LookupResult(l.block_hash, l.reply, content) # "header"
             THEN LookupResult(l.block_hash, l.reply, content)
             ELSE IF l.proof = "bad" THEN "BadTrieProof" ELSE "value"

\* what the call returns: the header, the first item of the reply, the empty
\* code (0) where the reply has no code, the account the proof proves
LookupValue(l, content) ==
    CASE l.op = "code" -> IF l.reply = 0 THEN 0 ELSE content
      [] l.op = "account" -> l.block_hash
      [] OTHER -> content

\* _wait_for_reply returns the reply to the lookup method, which goes on to
\* its next suspension or to its end
LookupReplyReceived(c, content, last_id) ==
    /\ ~WorkerRuns
    /\ lookups[c].pc = "got_reply"
    /\ ~token_triggered
    /\ content \in ReplyContents(lookups[c])
    /\ LET l == lookups[c]
       IN  IF l.op = "account" /\ l.proof = "none"
           THEN \* _get_proof returns reply['proof'] (line 360), then line 322
                /\ next_request_id <= last_id
                /\ SendLookupRequest(c,
                                     [l EXCEPT !.proof = IF content = 1 THEN "good"
                                                         ELSE "bad"],
                                     l.peer)
                /\ UNCHANGED lookup_cache
           ELSE LET result == LookupOutcome(l, content)
                    value == IF result = "value" THEN LookupValue(l, content) ELSE NoHash
                IN  /\ lookups' = [lookups EXCEPT ![c] = Finished(l, result, value)]
                    /\ lookup_cache' =
                           IF result = "value" \/ cache_exceptions
                           THEN CachePut(l.op, l.block_hash, value)
                           ELSE lookup_cache
                    /\ UNCHANGED request_vars
    /\ UNCHANGED <<db_vars, announcement_queue, last_processed_announcements,
                   worker, peer_vars, token_triggered, hist>>

\* the wait of line 279 ends with TimeoutError, which reaches the caller
LookupTimeout(c) ==
    /\ ~WorkerRuns
    /\ lookups[c].pc = "wait"
    /\ ~token_triggered
    /\ lookups' = [lookups EXCEPT ![c] = Finished(lookups[c], "TimeoutError", NoHash)]
    /\ UNCHANGED <<db_vars, announcement_queue, last_processed_announcements,
                   request_vars, worker, lookup_cache, peer_vars, token_triggered, hist>>

\* self.wait raises OperationCancelled
LookupCancelled(c) ==
    /\ ~WorkerRuns
    /\ token_triggered
    /\ lookups[c].pc \in {"wait", "got_reply"}
    /\ lookups' = [lookups EXCEPT ![c] = Finished(lookups[c], "OperationCancelled", NoHash)]
    /\ UNCHANGED <<db_vars, announcement_queue, last_processed_announcements,
                   request_vars, worker, lookup_cache, peer_vars, token_triggered, hist>>

\* the payloads of the replies with the id: the number of items of the list.
\* The payload of a reply nobody listens to is never read, and a lookup reads
\* the first item only: one payload stands for those that differ in what is
\* not read.
ReplyPayloads(request_id) ==
    IF WorkerListens(request_id)
    THEN BatchSizes
    ELSE IF \E c \in Callers : LookupListens(c, request_id)
    THEN {0, 1}
    ELSE {0}

(***************************************************************************)
(* The specifications.  Spec is the whole service, with callers of         *)
(* get_block_header_by_hash.  SyncSpec is the service without lookup       *)
(* callers, where more requests can be sent.  LookupSpec is the service    *)
(* with callers of the five lookup methods, where no announcement is       *)
(* taken from the queue.                                                   *)
(***************************************************************************)
Next ==
    \/ \E peer \in Peers, head_info \in HeadInfos : register_peer(peer, head_info)
    \/ \E peer \in Peers, head_info \in HeadInfos : Announce(peer, head_info)
    \/ \E peer \in Peers, request_id \in RequestIds :
           \E headers \in ReplyPayloads(request_id) :
               HandleReply(peer, request_id, headers)
    \/ wait_for_announcement
    \/ ProcessAnnouncement(MaxRequestId)
    \/ FetchLoop(MaxRequestId)
    \/ ReplyTimeout
    \/ Retry(MaxRequestId)
    \/ ReplyReceived
    \/ \E hash \in Hashes : PersistAligned(hash)
    \/ \E hash \in Hashes : ImportHeader(hash)
    \/ HandleError
    \/ WorkerCancelled
    \/ Stop
    \/ \E c \in Callers, block_hash \in LookupKeys :
           GetBlockHeaderByHash(c, block_hash, MaxRequestId)
    \/ \E c \in Callers, content \in Hashes :
           LookupReplyReceived(c, content, MaxRequestId)
    \/ \E c \in Callers : LookupTimeout(c)
    \/ \E c \in Callers : LookupCancelled(c)

Spec == Init /\ [][Next]_vars

SyncNext ==
    \/ \E peer \in Peers, head_info \in HeadInfos : register_peer(peer, head_info)
    \/ \E peer \in Peers, head_info \in HeadInfos : Announce(peer, head_info)
    \/ \E peer \in Peers, request_id \in RequestIds :
           \E headers \in ReplyPayloads(request_id) :
               HandleReply(peer, request_id, headers)
    \/ wait_for_announcement
    \/ ProcessAnnouncement(MaxSyncRequestId)
    \/ FetchLoop(MaxSyncRequestId)
    \/ ReplyTimeout
    \/ Retry(MaxSyncRequestId)
    \/ ReplyReceived
    \/ \E hash \in Hashes : PersistAligned(hash)
    \/ \E hash \in Hashes : ImportHeader(hash)
    \/ HandleError
    \/ WorkerCancelled
    \/ Stop

SyncSpec == Init /\ [][SyncNext]_vars

LookupNext ==
    \/ \E peer \in Peers, head_info \in LookupHeadInfos : register_peer(peer, head_info)
    \/ \E peer \in Peers, request_id \in RequestIds :
           \E headers \in ReplyPayloads(request_id) :
               HandleReply(peer, request_id, headers)
    \/ Stop
    \/ \E c \in Callers, block_hash \in AllLookupKeys :
           GetBlockHeaderByHash(c, block_hash, MaxLookupRequestId)
    \/ \E c \in Callers, block_hash \in AllLookupKeys :
           GetBlockBodyByHash(c, block_hash, MaxLookupRequestId)
    \/ \E c \in Callers, block_hash \in AllLookupKeys :
           GetReceipts(c, block_hash, MaxLookupRequestId)
    \/ \E c \in Callers, key \in AllLookupKeys :
           GetAccount(c, key, MaxLookupRequestId)
    \/ \E c \in Callers, key \in AllLookupKeys :
           GetContractCode(c, key, MaxLookupRequestId)
    \/ \E c \in Callers, content \in Hashes :
           LookupReplyReceived(c, content, MaxLookupRequestId)
    \/ \E c \in Callers : LookupTimeout(c)
    \/ \E c \in Callers : LookupCancelled(c)

LookupSpec == Init /\ [][LookupNext]_vars

TypeOK ==
    /\ headerdb \subseteq Hashes
    /\ canonical_head \in headerdb
    /\ DOMAIN last_processed_announcements \subseteq Peers
    /\ DOMAIN pending_replies \subseteq RequestIds
    /\ next_request_id \in RequestIds \cup {1 + Max(MaxRequestId, Max(MaxSyncRequestId, MaxLookupRequestId))}
    /\ \A op \in Ops : Len(lookup_cache[op]) <= maxsize

(***************************************************************************)
(* Properties.                                                             *)
(***************************************************************************)
WorkerBusy == worker.pc \notin {"idle", "exited"}

QueueIndexes == 1 .. Len(announcement_queue)

\* C1: every persisted header with block_number > 0 was accepted by
\* validate_header against its parent, which was persisted before it.
C1_PersistedHeadersAreValidated ==
    \A h \in headerdb :
        BlockHeader(h).block_number > 0 =>
            /\ h \in hist.validated
            /\ BlockHeader(h).parent_hash \in headerdb

\* C2: when a reply wait has timed out, the entry of the request is no
\* longer in PendingReplies, so that a late reply finds no entry.
C2_TimeoutRemovesEntry ==
    worker.pc = "sleep" => worker.request_id \notin DOMAIN pending_replies

\* C3: at most one reply is delivered to a waiter.  A waiter resumes with a
\* reply only in a step that takes its entry out of PendingReplies, a waiter
\* that has its reply has no entry left and its reply is never replaced, and
\* the steps that take an entry out of PendingReplies change neither the
\* announcement queue, nor LastProcessedAnnouncements, nor the header database.
C3_WorkerDelivery ==
    (worker'.pc = "got_reply" /\ worker' # worker) =>
        /\ worker.pc = "wait"
        /\ worker'.request_id = worker.request_id
        /\ worker.request_id \in DOMAIN pending_replies
        /\ worker.request_id \notin DOMAIN pending_replies'

C3_LookupDelivery(c) ==
    (lookups'[c].pc = "got_reply" /\ lookups'[c] # lookups[c]) =>
        /\ lookups[c].pc = "wait"
        /\ lookups'[c].request_id = lookups[c].request_id
        /\ lookups[c].request_id \in DOMAIN pending_replies
        /\ lookups[c].request_id \notin DOMAIN pending_replies'

C3_ReplyFrame ==
    (DOMAIN pending_replies' # DOMAIN pending_replies
        /\ DOMAIN pending_replies' \subseteq DOMAIN pending_replies) =>
        UNCHANGED <<announcement_queue, last_processed_announcements, headerdb,
                    canonical_head>>

C3_AtMostOneReply ==
    /\ [](worker.pc = "got_reply" => worker.request_id \notin DOMAIN pending_replies)
    /\ [](\A c \in Callers :
            lookups[c].pc = "got_reply" =>
                lookups[c].request_id \notin DOMAIN pending_replies)
    /\ [][C3_WorkerDelivery /\ (\A c \in Callers : C3_LookupDelivery(c)) /\ C3_ReplyFrame]_vars

\* a reply was delivered to the worker while older entries, left by waits
\* that timed out, are in PendingReplies
C3_Witness ==
    /\ worker.pc = "got_reply"
    /\ worker.request_id \notin DOMAIN pending_replies
    /\ DOMAIN pending_replies # {}

\* C4: a waiter registers a request id only if the id is not a key of
\* PendingReplies, and the entry of a parked waiter stays its own.
C4_WorkerRegisters ==
    (worker'.pc = "wait" /\ worker.pc # "wait") =>
        worker'.request_id \notin DOMAIN pending_replies

C4_LookupRegisters(c) ==
    (lookups'[c].pc = "wait" /\ lookups[c].pc # "wait") =>
        lookups'[c].request_id \notin DOMAIN pending_replies

C4_NoRequestIdReuse ==
    /\ [](worker.pc = "wait" =>
            /\ worker.request_id \in DOMAIN pending_replies
            /\ pending_replies[worker.request_id] = "worker")
    /\ [](\A c \in Callers :
            lookups[c].pc = "wait" =>
                /\ lookups[c].request_id \in DOMAIN pending_replies
                /\ pending_replies[lookups[c].request_id] = c)
    /\ [][C4_WorkerRegisters /\ (\A c \in Callers : C4_LookupRegisters(c))]_vars

\* a sync fetch and a lookup are parked at once, beside the entry of a wait
\* that timed out
C4_Witness ==
    /\ worker.pc = "wait"
    /\ \E c \in Callers : lookups[c].pc = "wait"
    /\ Cardinality(DOMAIN pending_replies) >= 3

\* C5: a peer that was disconnected or dropped has no entry in
\* LastProcessedAnnouncements, from the end of its cancellation on.
C5_DroppedPeerHasNoEntry ==
    \A p \in Peers :
        peer_state[p] = "cancelled" => p \notin DOMAIN last_processed_announcements

\* C6: the header announced by an entry of LastProcessedAnnouncements is in
\* the header database.
C6_LastProcessedIsImported ==
    \A p \in DOMAIN last_processed_announcements :
        last_processed_announcements[p].block_hash \in headerdb

\* C7: at most one process_announcement is in progress.
C7_OneAnnouncementAtATime ==
    /\ hist.active <= 1
    /\ hist.active = 1 <=> WorkerBusy

\* an announcement is in progress while one of another peer is queued
C7_Witness ==
    /\ hist.active = 1
    /\ \E i \in QueueIndexes : announcement_queue[i].peer # worker.peer

\* C8: the announcements of a peer are processed in the order of their
\* arrival.  The queue is in the order of arrival, every queued announcement
\* arrived after the last one of its peer that was taken, and an
\* announcement is taken only when no other is in progress.
C8_QueueInOrder ==
    \A i \in QueueIndexes :
        /\ announcement_queue[i].serial > hist.last_started[announcement_queue[i].peer]
        /\ \A j \in 1 .. i - 1 :
               announcement_queue[j].serial < announcement_queue[i].serial

C8_TakenWhenIdle ==
    hist'.last_started # hist.last_started => hist.active = 0 /\ ~WorkerBusy

C8_PeerOrder == []C8_QueueInOrder /\ [][C8_TakenWhenIdle]_vars

\* the first announcement of a peer is in progress, its second one is queued
C8_Witness ==
    /\ WorkerBusy
    /\ \E i \in QueueIndexes :
           /\ announcement_queue[i].peer = worker.peer
           /\ announcement_queue[i].serial > worker.serial

\* C9: an error of process_announcement is answered as the table says: the
\* peer is disconnected with subprotocol_error after a
\* LESAnnouncementProcessingError, with timeout after TooManyTimeouts, and is
\* dropped with no disconnect after any other error; the peer has no entry
\* in LastProcessedAnnouncements then, and the worker awaits the next
\* announcement.  The worker leaves its loop only when the token is triggered.
C9_Handled ==
    (worker.pc = "error" /\ worker' # worker) =>
        /\ worker'.pc = "idle"
        /\ worker.peer \notin DOMAIN last_processed_announcements'
        /\ peer_state'[worker.peer] = "cancelled"
        /\ disconnect_reason'[worker.peer] =
               CASE worker.error = "LESAnnouncementProcessingError" -> "subprotocol_error"
                 [] worker.error = "TooManyTimeouts" -> "timeout"
                 [] OTHER -> disconnect_reason[worker.peer]
        /\ \A p \in Peers \ {worker.peer} :
               /\ disconnect_reason'[p] = disconnect_reason[p]
               /\ peer_state'[p] = peer_state[p]
        /\ announcement_queue' = announcement_queue

C9_ErrorTable ==
    /\ [](worker.pc = "exited" => token_triggered)
    /\ [][C9_Handled]_vars

\* after an error the worker has taken the next announcement: one peer was
\* disconnected for a bad header or dropped, the sync for the other one runs
C9_Witness ==
    /\ WorkerBusy
    /\ \E p \in Peers \ {worker.peer} :
           /\ peer_state[p] = "cancelled"
           /\ disconnect_reason[p] = "subprotocol_error"

\* C10: one fetch_headers call sends at most 5 requests; when a reply came
\* no further request is sent by the call; TooManyTimeouts is raised after
\* 5 requests that timed out, the peer is then disconnected with timeout and
\* has no entry in LastProcessedAnnouncements.
C10_Answered ==
    (worker.pc = "got_reply" /\ worker' # worker) =>
        /\ worker'.pc \in {"persist", "import", "error", "exited"}
        /\ next_request_id' = next_request_id

C10_Exhausted ==
    (worker.pc = "error" /\ worker.error = "TooManyTimeouts" /\ worker' # worker) =>
        /\ disconnect_reason'[worker.peer] = "timeout"
        /\ worker.peer \notin DOMAIN last_processed_announcements'

C10_AtMostFiveRequests ==
    /\ [](hist.requests_sent <= 5)
    /\ [](worker.pc = "error" /\ worker.error = "TooManyTimeouts" => hist.requests_sent = 5)
    /\ [][C10_Answered /\ C10_Exhausted]_vars

\* five requests of one fetch timed out and the peer was disconnected
C10_Witness ==
    /\ worker.pc = "idle"
    /\ \E p \in Peers :
           /\ disconnect_reason[p] = "timeout"
           /\ peer_state[p] = "cancelled"
           /\ p \notin DOMAIN last_processed_announcements
    /\ Cardinality(DOMAIN pending_replies) = 5

\* C11: once the cancel token is triggered, a waiter suspended on a reply
\* resumes with the cancellation only (the worker leaves its loop, a lookup
\* raises OperationCancelled), no announcement is taken from the queue, no
\* header is persisted, LastProcessedAnnouncements is not changed and no peer
\* is disconnected or dropped.
C11_AfterCancel ==
    token_triggered =>
        /\ announcement_queue' = announcement_queue
        /\ headerdb' = headerdb
        /\ last_processed_announcements' = last_processed_announcements
        /\ disconnect_reason' = disconnect_reason
        /\ peer_state' = peer_state
        /\ (worker.pc \in {"wait", "got_reply"} /\ worker' # worker) =>
               worker'.pc = "exited"
        /\ \A c \in Callers :
               (lookups[c].pc \in {"wait", "got_reply"} /\ lookups'[c] # lookups[c]) =>
                   lookups'[c].result = "OperationCancelled"

C11_CancelStopsWork == [][C11_AfterCancel]_vars

\* the entries of the cache of a lookup method with the key
CachedEntries(cache, op, key) ==
    {cache[op][i] : i \in {j \in 1 .. Len(cache[op]) : cache[op][j].key = key}}

\* C12: get_block_header_by_hash raises HeaderNotFound exactly when the reply
\* is empty; it returns a header only if the hash of the header is the one
\* asked for, and raises BadLESResponse otherwise.  A call that raises leaves
\* the cache unchanged, the hash of a call that has raised HeaderNotFound or
\* BadLESResponse is not cached, and the next call with this hash sends a
\* new request.
C12_HeaderLookupEnds(c) ==
    (lookups[c].pc = "got_reply" /\ lookups[c].op = "header" /\ lookups'[c].pc = "idle"
        /\ ~token_triggered) =>
        /\ lookups'[c].result \in {"value", "HeaderNotFound", "BadLESResponse"}
        /\ lookups[c].reply = 0 <=> lookups'[c].result = "HeaderNotFound"
        /\ lookups'[c].result = "value" => lookups'[c].value = lookups[c].block_hash
        /\ lookups'[c].result # "value" => lookup_cache' = lookup_cache

C12_Refetch(c) ==
    (lookups[c].pc = "idle" /\ lookups[c].op = "header"
        /\ lookups[c].result \in {"HeaderNotFound", "BadLESResponse"}
        /\ lookups'[c] # lookups[c]
        /\ lookups'[c].op = "header"
        /\ lookups'[c].block_hash = lookups[c].block_hash) =>
        /\ lookups'[c].pc = "wait"
        /\ lookups'[c].request_id = next_request_id
        /\ next_request_id' = next_request_id + 1
        /\ DOMAIN pending_replies' = DOMAIN pending_replies \cup {next_request_id}

C12_FailuresNotCached ==
    /\ [](\A c \in Callers :
            (lookups[c].pc = "idle" /\ lookups[c].op = "header"
                /\ lookups[c].result \in {"HeaderNotFound", "BadLESResponse"}) =>
                CachedEntries(lookup_cache, "header", lookups[c].block_hash) = {})
    /\ [][\A c \in Callers : C12_HeaderLookupEnds(c) /\ C12_Refetch(c)]_vars

\* a call has raised BadLESResponse after an earlier call has filled the
\* cache with the header of another hash: the cache still has that entry only
C12_Witness ==
    \E c \in Callers :
        /\ lookups[c].pc = "idle"
        /\ lookups[c].op = "header"
        /\ lookups[c].result = "BadLESResponse"
        /\ lookup_cache["header"] # <<>>
        /\ CachedEntries(lookup_cache, "header", lookups[c].block_hash) = {}

\* C13 as stated: a call of a lookup method made while its key is cached
\* returns the cached value and sends no request, and the calls with one key
\* send at most one request: the call that fills the cache sends one.
C13_Hit(c) ==
    (lookups[c].pc = "idle" /\ lookups'[c] # lookups[c]
        /\ CachedEntries(lookup_cache, lookups'[c].op, lookups'[c].block_hash) # {}) =>
        /\ lookups'[c].pc = "idle"
        /\ lookups'[c].result = "value"
        /\ lookups'[c].requests = 0
        /\ CachedEntries(lookup_cache, lookups'[c].op, lookups'[c].block_hash) =
               {[key |-> lookups'[c].block_hash, value |-> lookups'[c].value]}
        /\ CachedEntries(lookup_cache', lookups'[c].op, lookups'[c].block_hash) =
               CachedEntries(lookup_cache, lookups'[c].op, lookups'[c].block_hash)
        /\ UNCHANGED request_vars

C13_Fill(c) ==
    (lookups[c].pc = "got_reply" /\ lookups'[c].pc = "idle"
        /\ lookups'[c].result = "value") =>
        CachedEntries(lookup_cache', lookups'[c].op, lookups'[c].block_hash) =
            {[key |-> lookups'[c].block_hash, value |-> lookups'[c].value]}

C13_OneRequest ==
    /\ [](\A c \in Callers : lookups[c].requests <= 1)
    /\ [][\A c \in Callers : C13_Hit(c) /\ C13_Fill(c)]_vars

\* C13 as amended: a call of a lookup method made while its key is cached
\* returns the cached value, which is the value the call that filled the
\* cache returned, and sends no request; the call that fills the cache sends
\* one request, and two (the proof, then the header) for get_account.
C13_Idempotent ==
    /\ [](\A c \in Callers :
            lookups[c].requests <= IF lookups[c].op = "account" THEN 2 ELSE 1)
    /\ [][\A c \in Callers : C13_Hit(c) /\ C13_Fill(c)]_vars

\* get_account was answered from the cache, which a call with two requests
\* had filled
C13_Witness ==
    \E c \in Callers :
        /\ lookups[c].pc = "idle"
        /\ lookups[c].op = "account"
        /\ lookups[c].result = "value"
        /\ lookups[c].requests = 0
        /\ next_request_id >= 2

\* C14: get_sync_start_block returns 1 when the canonical head is the
\* genesis header; else, for a peer with no entry in
\* LastProcessedAnnouncements, it fetches from
\* max(1, chain_head.block_number - max_headers_fetch + 1) and returns
\* max(1, chain_head.block_number); else it returns
\* max(1, last_processed[peer].block_number - head_info.reorg_depth), which is
\* 5 for 5 and 0, and 4 for 7 and 3.
C14_WithoutFetch ==
    (worker.pc = "process" /\ worker'.pc = "loop") =>
        LET chain_head == BlockHeader(canonical_head)
        IN  /\ worker'.chain_head_number = chain_head.block_number
            /\ IF chain_head.block_number = 0
               THEN worker'.start_block = 1
               ELSE /\ worker.peer \in DOMAIN last_processed_announcements
                    /\ worker'.start_block =
                           Max(1, last_processed_announcements[worker.peer].block_number
                                      - worker.head_info.reorg_depth)

C14_AlignmentFetch ==
    (worker.pc = "process" /\ worker'.pc \notin {"process", "loop", "idle", "exited"}) =>
        LET chain_head == BlockHeader(canonical_head)
        IN  /\ chain_head.block_number # 0
            /\ worker.peer \notin DOMAIN last_processed_announcements
            /\ worker'.pc = "wait"
            /\ worker'.phase = "align"
            /\ worker'.chain_head_number = chain_head.block_number
            /\ worker'.fetch_start =
                   Max(1, chain_head.block_number - max_headers_fetch + 1)

C14_AfterFetch ==
    (worker.pc = "persist" /\ worker'.pc = "loop") =>
        /\ worker'.start_block = Max(1, worker.chain_head_number)
        /\ worker.peer \notin DOMAIN last_processed_announcements

C14_SyncStartBlock ==
    /\ [](sync_start_block(7, TRUE, 5, 0) = 5 /\ sync_start_block(8, TRUE, 7, 3) = 4)
    /\ [][C14_WithoutFetch /\ C14_AlignmentFetch /\ C14_AfterFetch]_vars

\* the start block was raised to 1: the reorg depth of the announcement is
\* the block number of the last announcement of the peer
C14_Witness ==
    /\ worker.pc = "loop"
    /\ worker.chain_head_number >= 1
    /\ worker.peer \in DOMAIN last_processed_announcements
    /\ last_processed_announcements[worker.peer].block_number
           - worker.head_info.reorg_depth = 0
    /\ worker.start_block = 1

\* C15: every GetBlockHeaders request the worker sends for an announcement
\* starts at a block number of 1 or more, the fetch loop never has a start
\* block below 1, and process_announcement never ends with the
\* ValidationError of fetch_headers.
C15_NeverFetchesGenesis ==
    /\ worker.fetch_start # NoNumber => worker.fetch_start >= 1
    /\ worker.pc = "loop" => worker.start_block >= 1
    /\ worker.pc = "error" => worker.error # "ValidationError"

\* a request of the fetch loop is out whose start block was raised to 1,
\* while the database holds headers above the genesis header
C15_Witness ==
    /\ worker.pc = "wait"
    /\ worker.phase = "sync"
    /\ worker.fetch_start = 1
    /\ worker.peer \in DOMAIN last_processed_announcements
    /\ last_processed_announcements[worker.peer].block_number
           - worker.head_info.reorg_depth = 0
    /\ Cardinality(headerdb) >= 3

\* C16: when the header database has a header with the announced hash,
\* process_announcement sends no request, persists no header and leaves
\* PendingReplies unchanged; it returns, and the worker records the
\* announcement in LastProcessedAnnouncements and awaits the next one.
C16_Skip ==
    (worker.pc = "process" /\ worker' # worker /\ ~token_triggered
        /\ worker.head_info.block_hash \in headerdb) =>
        /\ UNCHANGED <<pending_replies, next_request_id, headerdb, canonical_head>>
        /\ worker'.pc = "idle"
        /\ last_processed_announcements' =
               [p \in DOMAIN last_processed_announcements \cup {worker.peer} |->
                   IF p = worker.peer
                   THEN worker.head_info
                   ELSE last_processed_announcements[p]]
        /\ UNCHANGED <<peer_state, disconnect_reason>>

C16_SkipIfKnown == [][C16_Skip]_vars

\* an announcement was skipped whose head is below the canonical head, by a
\* peer that had no entry
C16_Witness ==
    /\ worker.pc = "idle"
    /\ \E p \in DOMAIN last_processed_announcements :
           /\ last_processed_announcements[p].block_hash \in headerdb
           /\ last_processed_announcements[p].block_number
                  < BlockHeader(canonical_head).block_number
           /\ next_request_id = 0

\* C17: when the validation of a header of an imported batch fails (a
\* genesis header, a header whose parent is not in the header database, a
\* header validate_header rejects), LESAnnouncementProcessingError is raised
\* and the header is not persisted; the peer is then disconnected with the
\* reason subprotocol_error.
C17_Raised ==
    (worker.pc = "import" /\ worker'.pc = "error") =>
        /\ worker'.error = "LESAnnouncementProcessingError"
        /\ UNCHANGED <<headerdb, canonical_head>>

C17_Disconnected ==
    (worker.pc = "error" /\ worker.phase = "sync" /\ worker.headers > 0
        /\ worker' # worker) =>
        disconnect_reason'[worker.peer] = "subprotocol_error"

C17_ValidationFailures == [][C17_Raised /\ C17_Disconnected]_vars

\* C18: when a batch of valid headers has been imported, the start block of
\* the fetch loop is greater than before, also when the batch is the block at
\* the start block only; so the loop ends after at most
\* head_info.block_number rounds.
C18_Progress ==
    (worker.pc = "import" /\ worker'.pc = "loop") =>
        worker'.start_block > worker.start_block

C18_StartBlockIncreases == [][C18_Progress]_vars

\* C19: a reply is consumed by a waiter only when it came from the peer the
\* request was sent to: the announcement worker never holds a reply of
\* another peer than the one it syncs with, and a lookup never holds a reply
\* of another peer than the one it asked.
C19_WorkerReply ==
    worker.pc = "got_reply" => worker.reply_peer = worker.peer

C19_LookupReply ==
    \A c \in Callers :
        lookups[c].pc = "got_reply" => lookups[c].reply_peer = lookups[c].peer

C19_ReplyFromRequestedPeer == C19_WorkerReply /\ C19_LookupReply

\* the number of headers of the current batch the import loop has gone
\* through: the position of the header it is about to validate
BatchPosition == worker.reply - worker.headers

\* C20: the headers of a batch are validated and persisted one by one, in the
\* order of the batch: each header that passes is persisted before the next
\* one is looked at; when the header at position k fails, the headers at
\* positions 0..k-1, and no other header of the batch, have been persisted and
\* they stay persisted; when no header fails, the new start block is the block
\* number of the last header of the batch.
C20_OneByOne ==
    (worker.pc = "import" /\ worker.headers > 0 /\ worker'.pc = "import"
        /\ worker' # worker) =>
        /\ Len(hist.batch) = BatchPosition
        /\ \E h \in Hashes :
              /\ hist'.batch = Append(hist.batch, h)
              /\ headerdb' = headerdb \cup {h}

C20_Failure ==
    (worker.pc = "import" /\ worker'.pc = "error") =>
        /\ Len(hist.batch) = BatchPosition
        /\ \A i \in 1 .. Len(hist.batch) : hist.batch[i] \in headerdb'
        /\ headerdb' = headerdb
        /\ hist'.batch = hist.batch

C20_AfterFailure ==
    (worker.pc = "error" /\ worker.phase = "sync") => headerdb' = headerdb

C20_NoFailure ==
    (worker.pc = "import" /\ worker.headers = 0 /\ worker'.pc = "loop") =>
        /\ Len(hist.batch) = worker.reply
        /\ Len(hist.batch) > 0
        /\ worker'.start_block = BlockHeader(hist.batch[Len(hist.batch)]).block_number

C20_BatchInOrder ==
    [][C20_OneByOne /\ C20_Failure /\ C20_AfterFailure /\ C20_NoFailure]_vars

\* the second header of a batch has failed validation and the first one of
\* the batch is in the header database
C20_Witness ==
    /\ worker.pc = "error"
    /\ worker.error = "LESAnnouncementProcessingError"
    /\ worker.phase = "sync"
    /\ BatchPosition = 1
    /\ Len(hist.batch) = 1
    /\ hist.batch[1] \in headerdb

====
